---- MODULE Spec2Model ----
(***************************************************************************)
(* Model of scripts/virustotal_scan.py: the upload / poll orchestration of *)
(* main(), the RateLimiter gate and the three throttled remote calls.      *)
(*                                                                         *)
(* Time.  `now' is the value time.time() returns.  The clock is taken to   *)
(* be monotonic and to advance only inside the blocking operations of the  *)
(* script: time.sleep() (which sleeps at least the requested duration) and *)
(* the curl subprocess (a request is issued when the subprocess starts and *)
(* its response arrives some time later).  Plain statements take no time.  *)
(*                                                                         *)
(* Absent dictionary keys are written Absent (strings) and <<>> (stats).   *)
(* A record dict is referred to by its index in `records'.                 *)
(***************************************************************************)
EXTENDS Integers, Sequences, FiniteSets, TLC

\* ------------------------------------------------------------- bounds
MaxFiles == 2
MaxCurl == 1
MaxOversleep == 0
MaxCalls == 2
MaxClock == 4
NumThreads == 2
MaxFound == 3

\* ------------------------------------------------------------- inputs
MiB == 1024 * 1024
SmallLimit == 32 * MiB
LargeLimit == 650 * MiB
VT_FILES_URL == "https://www.virustotal.com/api/v3/files"
VT_UPLOAD_URL_URL == "https://www.virustotal.com/api/v3/files/upload_url"

FileSizes == {SmallLimit, SmallLimit + 1, LargeLimit, LargeLimit + 1}
MinIntervals == {1, 2}
PollTimeouts == {0, 3}
UploadUrls == {"u1"}
AnalysisIds == {"a1", "a2"}
StatusStrings == {"in-progress", "completed", "poll_failed", "timeout"}
StatsDicts == {<<0, 1>>}

Absent == "absent"

\* A file on disk: its size and whether reading it for the hash succeeds.
Artifacts == [size : FileSizes, readable : BOOLEAN]

\* BUG variant: the 650 MiB check is missing.
TooLargeNever(size) == FALSE
\* upload_file, line 130.
TooLarge(size) == size > LargeLimit

\* BUG variant: the 32 MiB boundary is off by one.
NeedsUploadUrlFrom32(size) == size >= SmallLimit
\* upload_file, line 135.
NeedsUploadUrl(size) == size > SmallLimit

\* A JSON value as the isinstance() tests of the script see it.
Str(s) == [ty |-> "str", s |-> s]
Null == [ty |-> "null", s |-> ""]

\* ------------------------------------------------------------- RateLimiter
\* BUG variant: wait() never sleeps.
WaitWakeNoSleep(n, nt, over) == n
\* wait(), lines 61-63: the time at which the caller goes on, having read
\* `n' from the clock; `over' is by how much time.sleep() overshoots.
WaitWake(n, nt, over) == IF n < nt THEN n + (nt - n) + over ELSE n

\* BUG variant: _next_time computed from the clock value read before the sleep.
WaitNextStale(n, t, mi) == n + mi
\* wait(), line 64: the new _next_time; `t' is the clock read at line 64.
WaitNext(n, t, mi) == t + mi

\* The overshoots time.sleep() may have when wait() is entered at n.
Oversleeps(n, nt) == IF n < nt THEN 0 .. MaxOversleep ELSE {0}

VARIABLES
  api_key,        \* TRUE iff VIRUSTOTAL_API_KEY is set and not blank
  files,          \* collect_files(root): the discovered artifacts, in order
  min_interval,   \* args.min_interval_seconds
  poll_timeout,   \* args.poll_timeout_seconds
  pc,             \* position of main()
  now,            \* time.time()
  next_time,      \* limiter._next_time
  fi,             \* index of the file the upload loop is at
  url,            \* upload_file's local `url'
  records,        \* main's `records'
  deadline,       \* main's `deadline'
  pending,        \* main's `pending' (indices into records)
  still_pending,  \* main's `still_pending'
  pi,             \* position of `for r in pending'
  report,         \* what write_reports wrote: <<>> (nothing) or <<records>>
  exit_code,      \* main's return value, -1 while running
  ngrants,        \* log: how many times limiter.wait() has returned
  last_grant,     \* log: the clock at the last return of limiter.wait()
  nreqs,          \* log: how many requests run_curl_json has issued
  last_req,       \* log: the clock at the start of the last request
  reqs,           \* log: the requests of the upload loop (kind, url, file, resp)
  polled,         \* log: the records polled so far in the current poll cycle
  answer,         \* log: what the last poll was answered, until its cycle ends
  t_pc,           \* threads calling limiter.wait(): each one's position in wait()
  t_now,          \* each thread's local `now' (line 61)
  t_wake,         \* each thread's wake-up time while in time.sleep()
  t_calls,        \* how many calls of wait() each thread has completed
  t_grants,       \* log: the clock at every return of wait(), in order
  root,           \* collect_files: the entries root.rglob("*") yields
  cf_files,       \* collect_files: its local `files' (line 178)
  filtered,       \* collect_files: its local `filtered'
  cf_i,           \* collect_files: position of `for p in files' (line 184)
  cf_pc           \* collect_files: position in the function

vars == <<api_key, files, min_interval, poll_timeout, pc, now, next_time, fi,
          url, records, deadline, pending, still_pending, pi, report,
          exit_code, ngrants, last_grant, nreqs, last_req, reqs, polled,
          answer, t_pc, t_now, t_wake, t_calls, t_grants,
          root, cf_files, filtered, cf_i, cf_pc>>

\* The run's inputs and the threads of the concurrent use of the limiter.
col == <<root, cf_files, filtered, cf_i, cf_pc>>
cfg == <<api_key, files, min_interval, poll_timeout, col>>
thr == <<t_pc, t_now, t_wake, t_calls, t_grants>>
log == <<ngrants, last_grant, nreqs, last_req, reqs, polled, answer>>
Threads == 1 .. NumThreads

\* ------------------------------------------------------------- remote bodies
\* What subprocess.run + json.loads can give run_curl_json (lines 98-110).
CurlErrors == {"curl_not_found", "curl_failed", "invalid_json"}

\* The exception class run_curl_json raises (lines 101, 105, 110).
CurlException(rc) == "VtError"

\* GET /files/upload_url: the parsed body, `top' its JSON type.
UploadUrlBodies ==
  {[top |-> "dict", data |-> v] : v \in {Str(u) : u \in UploadUrls} \cup {Str(""), Null}}
    \cup {[top |-> "list", data |-> Null]}

\* POST upload: the parsed body; data_ty is the type of body["data"].
UploadBodies ==
  {[top |-> "dict", data_ty |-> "dict", id |-> v] :
      v \in {Str(a) : a \in AnalysisIds} \cup {Str(""), Null}}
    \cup {[top |-> "dict", data_ty |-> "null", id |-> Null],
          [top |-> "list", data_ty |-> "null", id |-> Null]}

NoStats == [ty |-> "null", v |-> <<>>]
StatsOf(S) == [ty |-> "dict", v |-> S]
AnalysisBody(dty, aty, st, stats) ==
  [top |-> "dict", data_ty |-> dty, attrs_ty |-> aty, status |-> st, stats |-> stats]

\* GET /analyses/{id}: the parsed body.
AnalysisBodies ==
  {AnalysisBody("dict", "dict", Str(s), NoStats) : s \in StatusStrings}
    \cup {AnalysisBody("dict", "dict", Str("completed"), StatsOf(S)) : S \in StatsDicts}
    \cup {AnalysisBody("dict", "dict", Str("in-progress"), StatsOf(S)) : S \in StatsDicts}
    \cup {AnalysisBody("dict", "dict", Null, NoStats),
          AnalysisBody("dict", "missing", Null, NoStats),
          AnalysisBody("missing", "missing", Null, NoStats),
          AnalysisBody("null", "missing", Null, NoStats),
          [top |-> "list", data_ty |-> "missing", attrs_ty |-> "missing",
           status |-> Null, stats |-> NoStats]}

\* BUG variant: the handlers catch VtError only.
CaughtOnlyVtError(exc) == exc = "VtError"
\* `except Exception' (lines 270, 281, 309): the classes it catches.  VtError is
\* a RuntimeError (line 67); OSError and AttributeError are Exceptions too.
Caught(exc) == exc \in {"VtError", "AttributeError", "OSError"}

\* ------------------------------------------------------------- parsing
\* get_upload_url, lines 120-123: the URL, or the exception raised.
ParseUploadUrl(body) ==
  IF body.top # "dict" THEN [ok |-> FALSE, v |-> "AttributeError"]
  ELSE IF body.data.ty # "str" \/ body.data.s = ""
       THEN [ok |-> FALSE, v |-> "VtError"]
       ELSE [ok |-> TRUE, v |-> body.data.s]

\* upload_file, lines 148-153: the analysis id, or the exception raised.
ParseUpload(body) ==
  IF body.top # "dict" THEN [ok |-> FALSE, v |-> "AttributeError"]
  ELSE LET analysis_id == IF body.data_ty = "dict" THEN body.id ELSE Null
       IN IF analysis_id.ty # "str" \/ analysis_id.s = ""
          THEN [ok |-> FALSE, v |-> "VtError"]
          ELSE [ok |-> TRUE, v |-> analysis_id.s]

\* main, lines 299-300: attrs.get("status") and attrs.get("stats"), or the
\* AttributeError of calling .get on something that is not a dict.
ParseAnalysis(body) ==
  IF body.top # "dict" \/ body.data_ty = "null" \/ body.attrs_ty = "null"
  THEN [raised |-> TRUE, status |-> Null, stats |-> NoStats]
  ELSE IF body.data_ty = "missing" \/ body.attrs_ty = "missing"
       THEN [raised |-> FALSE, status |-> Null, stats |-> NoStats]
       ELSE [raised |-> FALSE, status |-> body.status, stats |-> body.stats]

\* What a poll of record r was answered: the status string and the stats
\* mapping of the body (Absent, <<>> when there is none), the exception raised,
\* if any, and the analysis_status r had when the poll was made.
NoAnswer == [status |-> Absent, stats |-> <<>>, exc |-> Absent, prev |-> Absent]
Answer(r, rc, body) ==
  IF rc # "ok"
  THEN [NoAnswer EXCEPT !.exc = "VtError", !.prev = r.analysis_status]
  ELSE IF ParseAnalysis(body).raised
  THEN [NoAnswer EXCEPT !.exc = "AttributeError", !.prev = r.analysis_status]
  ELSE [status |-> IF ParseAnalysis(body).status.ty = "str"
                   THEN ParseAnalysis(body).status.s ELSE Absent,
        stats |-> ParseAnalysis(body).stats.v,
        exc |-> Absent,
        prev |-> r.analysis_status]

\* ------------------------------------------------------------- records
\* main, lines 261-265: the record of file i before hashing.
NewRecord(i) ==
  [file |-> i, size_bytes |-> files[i].size, sha256 |-> Absent,
   upload_status |-> Absent, analysis_id |-> Absent, analysis_status |-> Absent,
   analysis_stats |-> <<>>, error |-> <<>>]

\* main, lines 271-272.
HashFailedRecord(i) ==
  [NewRecord(i) EXCEPT !.upload_status = "hash_failed", !.error = <<"hash", "OSError">>]

\* main, lines 268-269 and 282-283.
UploadFailedRecord(i, msg) ==
  [NewRecord(i) EXCEPT !.sha256 = "sha", !.upload_status = "upload_failed",
                       !.error = <<"upload", msg>>]

\* main, lines 268-269 and 278-280.
UploadedRecord(i, id) ==
  [NewRecord(i) EXCEPT !.sha256 = "sha", !.analysis_id = id,
                       !.upload_status = "uploaded", !.analysis_status = "queued"]

\* main, line 288: the records that enter the poll set, in order.
RECURSIVE PendingOf(_, _)
PendingOf(recs, i) ==
  IF i > Len(recs) THEN <<>>
  ELSE (IF recs[i].analysis_id # Absent /\ recs[i].upload_status = "uploaded"
        THEN <<i>> ELSE <<>>) \o PendingOf(recs, i + 1)

\* BUG variant: a failed poll also clears the record's analysis id.
PolledRecordClearsId(r, rc, body) ==
  IF rc # "ok" \/ ParseAnalysis(body).raised
  THEN [r EXCEPT !.analysis_status = "poll_failed", !.analysis_id = Absent,
                 !.error = <<"poll", "VtError">>]
  ELSE IF ParseAnalysis(body).status.ty = "str"
       THEN [r EXCEPT !.analysis_status = ParseAnalysis(body).status.s]
       ELSE r
\* BUG variant: a status other than completed is not copied into the record.
PolledRecordIgnoresLabel(r, rc, body) ==
  IF rc # "ok" \/ ParseAnalysis(body).raised
  THEN [r EXCEPT !.analysis_status = "poll_failed", !.error = <<"poll", "VtError">>]
  ELSE IF ParseAnalysis(body).status = Str("completed")
       THEN [r EXCEPT !.analysis_status = "completed",
                      !.analysis_stats = ParseAnalysis(body).stats.v]
       ELSE r
\* BUG variant: the stats of the body are stored whatever the status is.
PolledRecordStoresAnyStats(r, rc, body) ==
  IF rc # "ok" \/ ParseAnalysis(body).raised
  THEN [r EXCEPT !.analysis_status = "poll_failed", !.error = <<"poll", "VtError">>]
  ELSE [r EXCEPT !.analysis_status = IF ParseAnalysis(body).status.ty = "str"
                                     THEN ParseAnalysis(body).status.s ELSE @,
                 !.analysis_stats = IF ParseAnalysis(body).stats.ty = "dict"
                                    THEN ParseAnalysis(body).stats.v ELSE @]
\* BUG variant: the except branch writes the wrong key.
PolledRecordWrongKey(r, rc, body) ==
  IF rc # "ok" \/ ParseAnalysis(body).raised
  THEN [r EXCEPT !.upload_status = "poll_failed", !.error = <<"poll", "VtError">>]
  ELSE IF ParseAnalysis(body).status.ty = "str"
       THEN [r EXCEPT !.analysis_status = ParseAnalysis(body).status.s]
       ELSE r
\* main, lines 295-312: record r after one poll with the given outcome.
PolledRecord(r, rc, body) ==
  IF rc # "ok" THEN [r EXCEPT !.analysis_status = "poll_failed", !.error = <<"poll", CurlException(rc)>>]
  ELSE LET a == ParseAnalysis(body) IN
    IF a.raised
    THEN [r EXCEPT !.analysis_status = "poll_failed", !.error = <<"poll", "AttributeError">>]
    ELSE LET r1 == IF a.status.ty = "str" THEN [r EXCEPT !.analysis_status = a.status.s] ELSE r
         IN IF a.status = Str("completed") /\ a.stats.ty = "dict"
            THEN [r1 EXCEPT !.analysis_stats = a.stats.v]
            ELSE r1

\* BUG variant: a completed submission is kept in the poll set.
StaysPendingUnlessRaised(rc, body) == rc = "ok" /\ ~ParseAnalysis(body).raised
\* main, lines 303-312: whether the polled record goes to still_pending.
StaysPending(rc, body) ==
  /\ rc = "ok"
  /\ ~ParseAnalysis(body).raised
  /\ ParseAnalysis(body).status # Str("completed")

\* BUG variant: the records left pending at the deadline are not finalised.
FinalRecordKeepsLabel(r, inPending) == r
\* main, lines 315-317.
FinalRecord(r, inPending) ==
  IF inPending /\ r.analysis_status \notin {"completed", "poll_failed"}
  THEN [r EXCEPT !.analysis_status = "timeout"]
  ELSE r

SeqRange(s) == {s[i] : i \in 1 .. Len(s)}

\* ------------------------------------------------------------- run_curl_json
\* Lines 80-110: the limiter's grant, then the request, whose outcome is known
\* d later.  A curl that cannot be started (line 100) is a request that fails
\* at once.  `resp' is what the caller extracts from the response: the upload
\* URL, the analysis id (Absent when there is none) or the answer to a poll.
RunCurl(kind, u, f, over, d, resp) ==
  LET t == WaitWake(now, next_time, over) IN
  /\ next_time' = WaitNext(now, t, min_interval)
  /\ ngrants' = ngrants + 1
  /\ last_grant' = t
  /\ now' = t + d
  /\ nreqs' = nreqs + 1
  /\ last_req' = t
  /\ IF kind = "analysis"
     THEN polled' = Append(polled, f) /\ answer' = resp /\ reqs' = reqs
     ELSE /\ reqs' = Append(reqs, [kind |-> kind, url |-> u, file |-> f,
                                   resp |-> resp])
          /\ polled' = polled /\ answer' = answer

\* ------------------------------------------------------------- main
Init ==
  /\ api_key \in BOOLEAN
  /\ files \in UNION {[1 .. n -> Artifacts] : n \in 0 .. MaxFiles}
  /\ min_interval \in MinIntervals
  /\ poll_timeout \in PollTimeouts
  /\ pc = "start"
  /\ now = 0
  /\ next_time = 0
  /\ fi = 0
  /\ url = Absent
  /\ records = <<>>
  /\ deadline = 0
  /\ pending = <<>>
  /\ still_pending = <<>>
  /\ pi = 0
  /\ report = <<>>
  /\ exit_code = -1
  /\ ngrants = 0
  /\ last_grant = 0
  /\ nreqs = 0
  /\ last_req = 0
  /\ reqs = <<>>
  /\ polled = <<>>
  /\ answer = NoAnswer
  /\ t_pc = [t \in Threads |-> "off"]
  /\ t_now = [t \in Threads |-> 0]
  /\ t_wake = [t \in Threads |-> 0]
  /\ t_calls = [t \in Threads |-> 0]
  /\ t_grants = <<>>
  /\ root = {} /\ cf_files = <<>> /\ filtered = <<>> /\ cf_i = 0 /\ cf_pc = "off"

\* Lines 245-248.
NoApiKey ==
  /\ pc = "start" /\ ~api_key
  /\ pc' = "done" /\ exit_code' = 0
  /\ UNCHANGED <<cfg, thr, now, next_time, fi, url,
                 records, deadline, pending, still_pending, pi, report, log>>

\* Lines 250-255.
NoFiles ==
  /\ pc = "start" /\ api_key /\ files = <<>>
  /\ report' = << <<>> >>
  /\ pc' = "done" /\ exit_code' = 0
  /\ UNCHANGED <<cfg, thr, now, next_time, fi, url,
                 records, deadline, pending, still_pending, pi, log>>

\* Lines 257-260.
BeginUploads ==
  /\ pc = "start" /\ api_key /\ files # <<>>
  /\ next_time' = 0 /\ records' = <<>> /\ fi' = 1 /\ pc' = "hash"
  /\ UNCHANGED <<cfg, thr, now, url, deadline,
                 pending, still_pending, pi, report, exit_code, log>>

\* BUG variant: the first failed upload of a run is attempted again.
NextFileRetries(rec) ==
  IF rec.upload_status = "upload_failed" /\ reqs = <<>>
  THEN pc' = "upload" /\ UNCHANGED <<records, fi, url>>
  ELSE /\ records' = Append(records, rec)
       /\ fi' = fi + 1
       /\ url' = Absent
       /\ pc' = IF fi + 1 > Len(files) THEN "deadline" ELSE "hash"
\* `records.append(rec)' then the next iteration of `for p in files'.
NextFile(rec) ==
  /\ records' = Append(records, rec)
  /\ fi' = fi + 1
  /\ url' = Absent
  /\ pc' = IF fi + 1 > Len(files) THEN "deadline" ELSE "hash"

\* An exception no handler catches leaves main().
Propagate == pc' = "raised" /\ UNCHANGED <<records, fi, url>>

\* Lines 281-284: upload_file raised exc.
UploadExcept(exc) ==
  IF Caught(exc) THEN NextFile(UploadFailedRecord(fi, exc)) ELSE Propagate

\* Lines 266-274.
HashFile ==
  /\ pc = "hash"
  /\ IF files[fi].readable
     THEN pc' = "upload" /\ UNCHANGED <<records, fi, url>>
     ELSE IF Caught("OSError") THEN NextFile(HashFailedRecord(fi)) ELSE Propagate
  /\ UNCHANGED <<cfg, thr, now, next_time, deadline,
                 pending, still_pending, pi, report, exit_code, log>>

\* Lines 129-133 and 281-284.
UploadTooLarge ==
  /\ pc = "upload" /\ TooLarge(files[fi].size)
  /\ UploadExcept("VtError")
  /\ UNCHANGED <<cfg, thr, now, next_time, deadline,
                 pending, still_pending, pi, report, exit_code, log>>

\* Lines 135-136 (get_upload_url, 113-123) and 281-284.
UploadGetUrl ==
  /\ pc = "upload" /\ ~TooLarge(files[fi].size) /\ NeedsUploadUrl(files[fi].size)
  /\ \E over \in Oversleeps(now, next_time), d \in 0 .. MaxCurl :
       \/ \E rc \in CurlErrors :
            /\ RunCurl("upload_url", VT_UPLOAD_URL_URL, fi, over, IF rc = "curl_not_found" THEN 0 ELSE d, Absent)
            /\ UploadExcept(CurlException(rc))
       \/ \E body \in UploadUrlBodies :
            /\ RunCurl("upload_url", VT_UPLOAD_URL_URL, fi, over, d,
                       IF ParseUploadUrl(body).ok THEN ParseUploadUrl(body).v ELSE Absent)
            /\ IF ParseUploadUrl(body).ok
               THEN url' = ParseUploadUrl(body).v /\ pc' = "post"
                    /\ UNCHANGED <<records, fi>>
               ELSE UploadExcept(ParseUploadUrl(body).v)
  /\ UNCHANGED <<cfg, thr, deadline,
                 pending, still_pending, pi, report, exit_code>>

\* upload_file's `url' at line 140.
PostUrl == IF pc = "post" THEN url ELSE VT_FILES_URL

\* Lines 137-153 and 277-284.
UploadPost ==
  /\ \/ pc = "post"
     \/ pc = "upload" /\ ~TooLarge(files[fi].size) /\ ~NeedsUploadUrl(files[fi].size)
  /\ \E over \in Oversleeps(now, next_time), d \in 0 .. MaxCurl :
       \/ \E rc \in CurlErrors :
            /\ RunCurl("upload", PostUrl, fi, over, IF rc = "curl_not_found" THEN 0 ELSE d, Absent)
            /\ UploadExcept(CurlException(rc))
       \/ \E body \in UploadBodies :
            /\ RunCurl("upload", PostUrl, fi, over, d,
                       IF ParseUpload(body).ok THEN ParseUpload(body).v ELSE Absent)
            /\ IF ParseUpload(body).ok
               THEN NextFile(UploadedRecord(fi, ParseUpload(body).v))
               ELSE UploadExcept(ParseUpload(body).v)
  /\ UNCHANGED <<cfg, thr, deadline,
                 pending, still_pending, pi, report, exit_code>>

\* Lines 287-288.
StartPolling ==
  /\ pc = "deadline"
  /\ deadline' = now + poll_timeout
  /\ pending' = PendingOf(records, 1)
  /\ pc' = "while"
  /\ UNCHANGED <<cfg, thr, now, next_time, fi, url,
                 records, still_pending, pi, report, exit_code, log>>

\* Lines 289-290: the loop condition holds, a cycle starts.
WhileEnter ==
  /\ pc = "while" /\ pending # <<>> /\ now < deadline
  /\ still_pending' = <<>> /\ pi' = 1 /\ pc' = "poll"
  /\ polled' = <<>>
  /\ UNCHANGED <<cfg, thr, now, next_time, fi, url,
                 records, deadline, pending, report, exit_code, ngrants, last_grant,
                 nreqs, last_req, reqs, answer>>

\* Line 289: the loop condition fails.
WhileExit ==
  /\ pc = "while" /\ ~(pending # <<>> /\ now < deadline)
  /\ pc' = "finalize"
  /\ UNCHANGED <<cfg, thr, now, next_time, fi, url,
                 records, deadline, pending, still_pending, pi, report, exit_code,
                 log>>

\* Lines 295-312: the exception raised inside the try, Absent if none.
PollException(rc, body) ==
  IF rc # "ok" THEN CurlException(rc)
  ELSE IF ParseAnalysis(body).raised THEN "AttributeError" ELSE Absent

\* Lines 295-312: the effect of the poll of record i on main's variables.
PollResult(i, rc, body) ==
  IF PollException(rc, body) # Absent /\ ~Caught(PollException(rc, body))
  THEN pc' = "raised" /\ UNCHANGED <<records, still_pending, pi>>
  ELSE /\ records' = [records EXCEPT ![i] = PolledRecord(records[i], rc, body)]
       /\ still_pending' = IF StaysPending(rc, body)
                           THEN Append(still_pending, i) ELSE still_pending
       /\ pi' = pi + 1
       /\ pc' = pc

\* Lines 291-312: one iteration of `for r in pending'.
PollOne ==
  /\ pc = "poll" /\ pi <= Len(pending)
  /\ LET i == pending[pi] IN
     \E over \in Oversleeps(now, next_time), d \in 0 .. MaxCurl :
       \/ \E rc \in CurlErrors :
            /\ RunCurl("analysis", records[i].analysis_id, i, over, IF rc = "curl_not_found" THEN 0 ELSE d, Answer(records[i], rc, AnalysisBody("missing", "missing", Null, NoStats)))
            /\ PollResult(i, rc, AnalysisBody("missing", "missing", Null, NoStats))
       \/ \E body \in AnalysisBodies :
            /\ RunCurl("analysis", records[i].analysis_id, i, over, d, Answer(records[i], "ok", body))
            /\ PollResult(i, "ok", body)
  /\ UNCHANGED <<cfg, thr, fi, url, deadline,
                 pending, report, exit_code>>

\* Line 313.
EndCycle ==
  /\ pc = "poll" /\ pi > Len(pending)
  /\ pending' = still_pending
  /\ pc' = "while"
  /\ answer' = NoAnswer
  /\ UNCHANGED <<cfg, thr, now, next_time, fi, url,
                 records, deadline, still_pending, pi, report, exit_code,
                 ngrants, last_grant, nreqs, last_req, reqs, polled>>

\* Lines 315-328 (write_reports, 193-224).
Finalize ==
  /\ pc = "finalize"
  /\ records' = [i \in 1 .. Len(records) |->
                   FinalRecord(records[i], i \in SeqRange(pending))]
  /\ report' = <<records'>>
  /\ exit_code' = 0
  /\ pc' = "done"
  /\ UNCHANGED <<cfg, thr, now, next_time, fi, url,
                 deadline, pending, still_pending, pi, log>>

Next ==
  \/ NoApiKey
  \/ NoFiles
  \/ BeginUploads
  \/ HashFile
  \/ UploadTooLarge
  \/ UploadGetUrl
  \/ UploadPost
  \/ StartPolling
  \/ WhileEnter
  \/ WhileExit
  \/ PollOne
  \/ EndCycle
  \/ Finalize

Spec == Init /\ [][Next]_vars

\* The interpreter keeps executing main(): every blocking call of the script
\* returns (time.sleep after its duration, curl within --max-time, line 86).
SpecLive == Spec /\ WF_vars(Next)

\* ------------------------------------------------------------- concurrent wait()
\* Threads calling wait() on one RateLimiter, one step per statement of wait();
\* the clock advances while they run.
InitThreads ==
  /\ api_key = TRUE
  /\ files = <<>>
  /\ min_interval \in MinIntervals
  /\ poll_timeout = 0
  /\ pc = "threads"
  /\ now = 0
  /\ next_time = 0
  /\ fi = 0
  /\ url = Absent
  /\ records = <<>>
  /\ deadline = 0
  /\ pending = <<>>
  /\ still_pending = <<>>
  /\ pi = 0
  /\ report = <<>>
  /\ exit_code = -1
  /\ ngrants = 0
  /\ last_grant = 0
  /\ nreqs = 0
  /\ last_req = 0
  /\ reqs = <<>>
  /\ polled = <<>>
  /\ answer = NoAnswer
  /\ t_pc = [t \in Threads |-> "idle"]
  /\ t_now = [t \in Threads |-> 0]
  /\ t_wake = [t \in Threads |-> 0]
  /\ t_calls = [t \in Threads |-> 0]
  /\ t_grants = <<>>
  /\ root = {} /\ cf_files = <<>> /\ filtered = <<>> /\ cf_i = 0 /\ cf_pc = "off"

main_vars == <<cfg, pc, fi, url, records, deadline, pending, still_pending, pi,
               report, exit_code, log>>

\* Line 61: now = time.time().
T_ReadClock(t) ==
  /\ t_pc[t] = "idle" /\ t_calls[t] < MaxCalls
  /\ t_now' = [t_now EXCEPT ![t] = now]
  /\ t_pc' = [t_pc EXCEPT ![t] = "read"]
  /\ UNCHANGED <<main_vars, now, next_time, t_wake, t_calls, t_grants>>

\* Lines 62-63: the comparison, and the start of time.sleep().
T_Compare(t) ==
  /\ t_pc[t] = "read"
  /\ IF t_now[t] < next_time
     THEN /\ t_wake' = [t_wake EXCEPT ![t] = now + (next_time - t_now[t])]
          /\ t_pc' = [t_pc EXCEPT ![t] = "sleep"]
     ELSE /\ t_wake' = t_wake
          /\ t_pc' = [t_pc EXCEPT ![t] = "set"]
  /\ UNCHANGED <<main_vars, now, next_time, t_now, t_calls, t_grants>>

\* Line 63: time.sleep() returns, not before the requested time has passed.
T_Wake(t) ==
  /\ t_pc[t] = "sleep" /\ now >= t_wake[t]
  /\ t_pc' = [t_pc EXCEPT ![t] = "set"]
  /\ UNCHANGED <<main_vars, now, next_time, t_now, t_wake, t_calls, t_grants>>

\* Line 64 and the return of wait(): the grant.
T_Grant(t) ==
  /\ t_pc[t] = "set"
  /\ next_time' = WaitNext(t_now[t], now, min_interval)
  /\ t_grants' = Append(t_grants, now)
  /\ t_calls' = [t_calls EXCEPT ![t] = @ + 1]
  /\ t_pc' = [t_pc EXCEPT ![t] = "idle"]
  /\ UNCHANGED <<main_vars, now, t_now, t_wake>>

\* The clock.
Tick ==
  /\ now < MaxClock
  /\ now' = now + 1
  /\ UNCHANGED <<main_vars, next_time, thr>>

NextThreads ==
  \/ \E t \in Threads : T_ReadClock(t)
  \/ \E t \in Threads : T_Compare(t)
  \/ \E t \in Threads : T_Wake(t)
  \/ \E t \in Threads : T_Grant(t)
  \/ Tick

SpecThreads == InitThreads /\ [][NextThreads]_vars

\* ------------------------------------------------------------- collect_files
\* File names are written as a stem, a sequence of pieces in which the piece
\* "-unsigned" is the substring the function looks for, and a suffix.
Dirs == <<"d1", "d2">>
Stems == <<(<<"app", "-unsigned", "-unsigned">>), (<<"app", "-unsigned">>),
           (<<"app">>), (<<"lib", "-unsigned">>)>>
Sufs == <<".AppImage", ".exe", ".txt">>
\* What rglob may yield: files, and a directory that is named like a file.
Entries ==
  [dir : SeqRange(Dirs), stem : SeqRange(Stems), suf : SeqRange(Sufs), is_file : {TRUE}]
    \cup {[dir |-> "d1", stem |-> <<"app">>, suf |-> ".exe", is_file |-> FALSE]}

\* Line 31.
SCAN_SUFFIXES == {".apk", ".aab", ".appimage", ".deb", ".dmg", ".exe",
                  ".flatpak", ".ipa", ".zip"}
\* str.lower() on the suffixes above (line 171).
Lower(suf) == IF suf = ".AppImage" THEN ".appimage" ELSE suf

\* Lines 168-176: whether the entry is appended to `out'.
Scanned(e) == e.is_file /\ Lower(e.suf) \in SCAN_SUFFIXES

PathOf(e) == [dir |-> e.dir, stem |-> e.stem, suf |-> e.suf]
\* p.name
NameOf(p) == [stem |-> p.stem, suf |-> p.suf]

\* The position of x in the sequence s of distinct elements.
IndexIn(s, x) == CHOOSE k \in 1 .. Len(s) : s[k] = x
\* Path.__lt__: by directory, then by name; Dirs, Stems and Sufs list their
\* elements in the order of the strings they stand for.
PathLess(p, q) ==
  LET kp == <<IndexIn(Dirs, p.dir), IndexIn(Stems, p.stem), IndexIn(Sufs, p.suf)>>
      kq == <<IndexIn(Dirs, q.dir), IndexIn(Stems, q.stem), IndexIn(Sufs, q.suf)>>
  IN \/ kp[1] < kq[1]
     \/ kp[1] = kq[1] /\ kp[2] < kq[2]
     \/ kp[1] = kq[1] /\ kp[2] = kq[2] /\ kp[3] < kq[3]

\* sorted(set(out)), line 178.
RECURSIVE Sorted(_)
Sorted(S) ==
  IF S = {} THEN <<>>
  ELSE LET m == CHOOSE x \in S : \A y \in S \ {x} : PathLess(x, y)
       IN <<m>> \o Sorted(S \ {m})

\* "-unsigned" in p.name, line 185.
HasUnsigned(p) == \E k \in 1 .. Len(p.stem) : p.stem[k] = "-unsigned"
\* p.name.replace("-unsigned", ""), line 186: every occurrence is removed.
SignedName(p) ==
  [stem |-> SelectSeq(p.stem, LAMBDA t : t # "-unsigned"), suf |-> p.suf]
\* Line 182.
Names(fs) == {NameOf(fs[k]) : k \in 1 .. Len(fs)}

\* BUG variant: every unsigned file is skipped.
SkippedAnyUnsigned(p, names) == HasUnsigned(p)
\* Lines 185-188: whether p is skipped.
Skipped(p, names) == HasUnsigned(p) /\ SignedName(p) \in names

InitCollect ==
  /\ api_key = TRUE
  /\ files = <<>>
  /\ min_interval = 1
  /\ poll_timeout = 0
  /\ pc = "collect"
  /\ now = 0
  /\ next_time = 0
  /\ fi = 0
  /\ url = Absent
  /\ records = <<>>
  /\ deadline = 0
  /\ pending = <<>>
  /\ still_pending = <<>>
  /\ pi = 0
  /\ report = <<>>
  /\ exit_code = -1
  /\ ngrants = 0
  /\ last_grant = 0
  /\ nreqs = 0
  /\ last_req = 0
  /\ reqs = <<>>
  /\ polled = <<>>
  /\ answer = NoAnswer
  /\ t_pc = [t \in Threads |-> "off"]
  /\ t_now = [t \in Threads |-> 0]
  /\ t_wake = [t \in Threads |-> 0]
  /\ t_calls = [t \in Threads |-> 0]
  /\ t_grants = <<>>
  /\ root \in UNION {{SeqRange(f) : f \in [1 .. n -> Entries]} : n \in 0 .. MaxFound}
  /\ cf_files = <<>> /\ filtered = <<>> /\ cf_i = 0
  /\ cf_pc = "scan"

not_col == <<api_key, files, min_interval, poll_timeout, pc, fi, url, records,
             deadline, pending, still_pending, pi, report, exit_code, log,
             now, next_time, thr>>

\* Lines 166-183.
CollectScan ==
  /\ cf_pc = "scan"
  /\ cf_files' = Sorted({PathOf(e) : e \in {x \in root : Scanned(x)}})
  /\ filtered' = <<>> /\ cf_i' = 1 /\ cf_pc' = "filter"
  /\ UNCHANGED <<not_col, root>>

\* Lines 184-189: one iteration of `for p in files'.
CollectFilter ==
  /\ cf_pc = "filter" /\ cf_i <= Len(cf_files)
  /\ filtered' = IF Skipped(cf_files[cf_i], Names(cf_files))
                 THEN filtered ELSE Append(filtered, cf_files[cf_i])
  /\ cf_i' = cf_i + 1
  /\ UNCHANGED <<not_col, root, cf_files, cf_pc>>

\* Line 190.
CollectReturn ==
  /\ cf_pc = "filter" /\ cf_i > Len(cf_files)
  /\ cf_pc' = "done"
  /\ UNCHANGED <<not_col, root, cf_files, filtered, cf_i>>

NextCollect == CollectScan \/ CollectFilter \/ CollectReturn

SpecCollect == InitCollect /\ [][NextCollect]_vars

\* ------------------------------------------------------------- properties
UploadTerminal == {"hash_failed", "upload_failed"}
AnalysisTerminal == {"completed", "poll_failed", "timeout"}

\* The record is in exactly one of the five terminal states.
InOneTerminalState(r) ==
  \/ r.upload_status \in UploadTerminal /\ r.analysis_status = Absent
  \/ r.upload_status = "uploaded" /\ r.analysis_status \in AnalysisTerminal

\* C1: when main() has finished a run in which artifacts were discovered,
\* records holds exactly one record per discovered artifact, in discovery
\* order, and every record is in exactly one terminal state (hash_failed,
\* upload_failed, completed, poll_failed or timeout); none is left queued or
\* with an in-progress label.
C1_OneTerminalRecordPerArtifact ==
  (pc = "done" /\ api_key /\ files # <<>>) =>
    /\ Len(records) = Len(files)
    /\ \A i \in 1 .. Len(records) :
         /\ records[i].file = i
         /\ InOneTerminalState(records[i])

\* A finished run of two artifacts, one uploaded and timed out after having
\* been polled, the other failed before any poll.
C1_Witness ==
  /\ pc = "done" /\ Len(records) = 2
  /\ \E i, j \in 1 .. 2 :
       /\ records[i].analysis_status = "timeout"
       /\ records[j].upload_status \in UploadTerminal
  /\ nreqs >= 3

\* C2: the grant times of any two successive calls of RateLimiter.wait() on
\* the run's limiter differ by at least min_interval_seconds.
C2_SuccessiveGrantsSpaced ==
  [][(ngrants' = ngrants + 1 /\ ngrants >= 1)
       => last_grant' - last_grant >= min_interval]_vars

\* Three grants, the last one given without sleeping (the clock had already
\* passed _next_time) after one that needed a sleep.
C2_Witness ==
  /\ ngrants >= 3
  /\ now >= next_time
  /\ last_grant > min_interval

\* C3: every request of the run, of any kind and for any submission, is issued
\* at the time of its own grant from the limiter (one grant per request), and
\* any two consecutive requests are issued at least min_interval_seconds apart.
C3_RequestsThrottled ==
  [][nreqs' = nreqs + 1
       => /\ ngrants' = ngrants + 1
          /\ last_req' = last_grant'
          /\ nreqs' = ngrants'
          /\ (nreqs >= 1 => last_req' - last_req >= min_interval)]_vars

\* A run that has issued requests of all three kinds, the last one a poll.
C3_Witness ==
  /\ \E k \in 1 .. Len(reqs) : reqs[k].kind = "upload_url"
  /\ \E k \in 1 .. Len(reqs) : reqs[k].kind = "upload"
  /\ Len(polled) >= 2
  /\ nreqs >= 5

\* C4: with two or more callers of wait() on one limiter, their steps
\* interleaved arbitrarily, no two grants are issued less than
\* min_interval_seconds apart.
C4_ConcurrentGrantsSpaced ==
  \A k \in 1 .. Len(t_grants) - 1 : t_grants[k + 1] - t_grants[k] >= min_interval

\* C5: a submission still polling when the poll deadline elapses gets no
\* further status request, and a response that arrives at or after the
\* deadline never makes it completed (it ends as timeout).
C5_DeadlineIsHardStop ==
  (pc = "poll" /\ polled # <<>>) =>
    /\ last_req < deadline
    /\ (now >= deadline =>
          records[polled[Len(polled)]].analysis_status # "completed")

\* Submission i is still in the poll set: in `pending' between cycles, and
\* during a cycle either not yet polled or already put in still_pending.
InPollSet(i) ==
  \/ pc \in {"while", "finalize"} /\ i \in SeqRange(pending)
  \/ pc = "poll" /\ i \in {pending[k] : k \in pi .. Len(pending)} \cup SeqRange(still_pending)

\* This step issues an analysis status request for submission i.
PolledNow(i) == Len(polled') = Len(polled) + 1 /\ polled'[Len(polled')] = i

\* C6 as claimed: once analysis_status is completed, poll_failed or timeout it
\* never changes again and no status request is issued for the submission,
\* whatever status strings the remote service returns.
C6_TerminalLabelStable ==
  [][\A i \in 1 .. Len(records) :
       records[i].analysis_status \in AnalysisTerminal
         => /\ records'[i].analysis_status = records[i].analysis_status
            /\ ~PolledNow(i)]_vars

\* C6 as amended: once analysis_status is completed, or is poll_failed or
\* timeout with the submission out of the poll set, it never changes again and
\* no status request is issued for the submission.  (A poll_failed or timeout
\* string returned by the remote service is only a label: the submission stays
\* in the poll set and is polled again.)
C6_TerminalStateStable ==
  [][\A i \in 1 .. Len(records) :
       (\/ records[i].analysis_status = "completed"
        \/ records[i].analysis_status \in AnalysisTerminal /\ ~InPollSet(i))
         => /\ records'[i].analysis_status = records[i].analysis_status
            /\ ~PolledNow(i)]_vars

\* A poll cycle that runs without a submission that completed, and without
\* one that failed, in an earlier cycle.
C6_Witness ==
  /\ pc = "poll" /\ polled # <<>>
  /\ \E i \in 1 .. Len(records) :
       /\ records[i].analysis_status \in {"completed", "poll_failed"}
       /\ records[i].error # <<>> \/ records[i].analysis_status = "completed"
       /\ i \notin SeqRange(pending)

\* The requests of the upload loop made for file i, in order.
ReqsOf(i) == SelectSeq(reqs, LAMBDA q : q.file = i)

\* Record i never reached the remote service nor the poll set.
NeverSubmitted(i) ==
  /\ records[i].error # <<>>
  /\ records[i].analysis_id = Absent
  /\ records[i].analysis_status = Absent
  /\ ReqsOf(i) = <<>>
  /\ i \notin SeqRange(pending) \cup SeqRange(still_pending) \cup SeqRange(polled)

\* C7 as claimed: a file larger than 650 MiB causes no request and no grant,
\* and its record ends upload_failed with an error, without analysis id, and
\* never enters the poll set.
C7_TooLargeIsUploadFailed ==
  \A i \in 1 .. Len(records) :
    records[i].size_bytes > LargeLimit
      => records[i].upload_status = "upload_failed" /\ NeverSubmitted(i)

\* C7 as amended: a file larger than 650 MiB causes no request and no grant;
\* its record carries an error and no analysis id, never enters the poll set,
\* and ends upload_failed when its hash was computed (hash_failed otherwise).
C7_TooLargeNeverSubmitted ==
  /\ [](\A i \in 1 .. Len(records) :
         records[i].size_bytes > LargeLimit
           => /\ NeverSubmitted(i)
              /\ records[i].upload_status =
                   IF records[i].sha256 # Absent THEN "upload_failed" ELSE "hash_failed")
  /\ [][(pc \in {"hash", "upload"} /\ files[fi].size > LargeLimit)
          => ngrants' = ngrants /\ nreqs' = nreqs]_vars

\* A finished run with a hashed file larger than 650 MiB after an uploaded one.
C7_Witness ==
  /\ pc = "done" /\ Len(records) = 2
  /\ records[1].upload_status = "uploaded"
  /\ records[2].size_bytes > LargeLimit /\ records[2].sha256 # Absent

\* C8: for a file that reaches the upload flow (its hash was computed), the
\* flow depends on the size, boundaries included: up to 32 MiB exactly one
\* request, the POST to the fixed files endpoint; above 32 MiB and up to
\* 650 MiB first the upload-url fetch, then the POST to exactly the URL the
\* fetch returned, and no POST at all when the fetch failed.
C8_FlowBySize ==
  \A i \in 1 .. Len(records) :
    LET R == ReqsOf(i)
        size == records[i].size_bytes
    IN records[i].sha256 # Absent =>
         /\ size <= SmallLimit =>
              /\ Len(R) = 1
              /\ R[1].kind = "upload" /\ R[1].url = VT_FILES_URL
         /\ (size > SmallLimit /\ size <= LargeLimit) =>
              /\ Len(R) \in {1, 2}
              /\ R[1].kind = "upload_url" /\ R[1].url = VT_UPLOAD_URL_URL
              /\ Len(R) = 2 <=> R[1].resp # Absent
              /\ Len(R) = 2 => R[2].kind = "upload" /\ R[2].url = R[1].resp

\* A run that uploaded a file of exactly 32 MiB and one of exactly 650 MiB.
C8_Witness ==
  /\ Len(records) = 2
  /\ records[1].size_bytes = SmallLimit /\ records[1].upload_status = "uploaded"
  /\ records[2].size_bytes = LargeLimit /\ records[2].upload_status = "uploaded"

\* C9: a record's upload_status is one of uploaded, upload_failed and
\* hash_failed from the moment the record exists and never changes afterwards,
\* and the record carries an analysis id iff its upload_status is uploaded.
C9_UploadStatusSetOnce ==
  /\ [](\A i \in 1 .. Len(records) :
         /\ records[i].upload_status \in {"uploaded", "upload_failed", "hash_failed"}
         /\ records[i].analysis_id # Absent <=> records[i].upload_status = "uploaded")
  /\ [][/\ Len(records') >= Len(records)
         /\ \A i \in 1 .. Len(records) :
              records'[i].upload_status = records[i].upload_status]_vars

\* A finished run whose uploaded record failed a poll, next to an upload failure.
C9_Witness ==
  /\ pc = "done" /\ Len(records) = 2
  /\ \E i, j \in 1 .. 2 :
       /\ records[i].upload_status = "uploaded"
       /\ records[i].analysis_status = "poll_failed" /\ records[i].error # <<>>
       /\ records[j].upload_status = "upload_failed"

\* The analysis id the upload response of file i carried, Absent if none.
ReturnedId(i) ==
  LET P == SelectSeq(ReqsOf(i), LAMBDA q : q.kind = "upload")
  IN IF P = <<>> THEN Absent ELSE P[Len(P)].resp

\* C10 as claimed: a stored analysis id is never modified, and no two records
\* of the run hold the same analysis id, whatever ids the remote returns.
C10_IdImmutableAndUnique ==
  /\ [](\A i, j \in 1 .. Len(records) :
         (i # j /\ records[i].analysis_id # Absent)
           => records[i].analysis_id # records[j].analysis_id)
  /\ [][\A i \in 1 .. Len(records) :
          records'[i].analysis_id = records[i].analysis_id]_vars

\* C10 as amended: a stored analysis id is never modified, and it is the id
\* the upload response of that file carried; two records hold the same id
\* exactly when the remote service returned the same id for both uploads.
C10_IdImmutableAsReturned ==
  /\ [](\A i \in 1 .. Len(records) : records[i].analysis_id = ReturnedId(i))
  /\ [][\A i \in 1 .. Len(records) :
          records'[i].analysis_id = records[i].analysis_id]_vars

\* A finished run in which both uploads were answered with the same id and
\* both submissions were polled.
C10_Witness ==
  /\ pc = "done" /\ Len(records) = 2
  /\ records[1].analysis_id # Absent
  /\ records[1].analysis_id = records[2].analysis_id
  /\ records[1].analysis_status = "poll_failed" /\ records[1].error # <<>>
  /\ records[2].analysis_status = "completed"

\* C11: a poll error for one submission changes only that submission's record
\* (analysis_status becomes poll_failed, error is stored; nothing else of it),
\* leaves every other record and the poll set built so far unchanged, and the
\* cycle goes on: when a cycle ends, every submission pending at its start has
\* been polled in it.
C11_PollErrorIsolated ==
  /\ [](pc = "poll" => polled = SubSeq(pending, 1, pi - 1))
  /\ [][\A i \in 1 .. Len(records) :
          (pc = "poll" /\ records'[i].error # records[i].error)
            => /\ records' = [records EXCEPT ![i] =
                       [records[i] EXCEPT !.analysis_status = "poll_failed",
                                          !.error = records'[i].error]]
               /\ records'[i].error # <<>>
               /\ still_pending' = still_pending /\ pending' = pending
               /\ pi' = pi + 1 /\ pc' = "poll"]_vars

\* A cycle over two submissions in which the first poll failed and the second,
\* made after it, returned completed with stats.
C11_Witness ==
  /\ pc = "poll" /\ pending = <<1, 2>> /\ polled = <<1, 2>>
  /\ records[1].analysis_status = "poll_failed" /\ records[1].error # <<>>
  /\ records[2].analysis_status = "completed" /\ records[2].analysis_stats # <<>>
  /\ still_pending = <<>>

C13_NoKeyWritesEmptyReport ==
  (pc = "done" /\ ~api_key) =>
    /\ nreqs = 0 /\ ngrants = 0
    /\ report = << <<>> >>
    /\ exit_code = 0

\* C14: every poll of a submission that is answered with a status string sets
\* the record's analysis_status to that string; a string other than completed
\* keeps the submission in the poll set (so it is polled again in the next
\* cycle that starts before the deadline), and completed with a stats mapping
\* S stores S and removes it from the poll set, however many non-completed
\* answers came before.  Between polls analysis_status does not change, and a
\* completed record is never changed again, so the final record is completed
\* with stats S.
C14_CompletedAfterLabels ==
  /\ [][\A i \in 1 .. Len(records) :
          (PolledNow(i) /\ answer'.status # Absent)
            => /\ records'[i].analysis_status = answer'.status
               /\ answer'.status # "completed" => InPollSet(i)'
               /\ (answer'.status = "completed" /\ answer'.stats # <<>>)
                    => /\ records'[i].analysis_stats = answer'.stats
                       /\ ~InPollSet(i)']_vars
  /\ [][\A i \in 1 .. Len(records) :
          (~PolledNow(i) /\ pc # "finalize")
            => records'[i].analysis_status = records[i].analysis_status]_vars
  /\ [][\A i \in 1 .. Len(records) :
          records[i].analysis_status = "completed" => records'[i] = records[i]]_vars

\* The third poll of a single submission (after the one upload request), made
\* in the cycle started just before the deadline, is answered completed with
\* stats after an earlier poll had left the label in-progress.
C14_Witness ==
  /\ Len(records) = 1 /\ nreqs = 4 /\ pc = "poll"
  /\ answer.prev = "in-progress"
  /\ answer.status = "completed" /\ answer.stats # <<>>
  /\ records[1].analysis_status = "completed"
  /\ records[1].analysis_stats = answer.stats
  /\ now >= deadline

\* C15: a successfully received body that lacks the required field raises an
\* error in each of the three calls: an upload-url body without a string data,
\* an upload body without a string data.id, and an analysis body without a
\* status string; the poll so answered moves the submission to poll_failed
\* with an error message and out of the poll set.
C15_MalformedBodyRaises ==
  /\ [](\A body \in UploadUrlBodies :
          (body.top # "dict" \/ body.data.ty # "str") => ~ParseUploadUrl(body).ok)
  /\ [](\A body \in UploadBodies :
          (body.top # "dict" \/ body.data_ty # "dict" \/ body.id.ty # "str")
            => ~ParseUpload(body).ok)
  /\ [][\A i \in 1 .. Len(records) :
          (PolledNow(i) /\ answer'.status = Absent /\ answer'.exc # "VtError")
            => /\ records'[i].analysis_status = "poll_failed"
               /\ records'[i].error # <<>>
               /\ ~InPollSet(i)']_vars

\* The candidate files: the entries of root that pass the suffix filter.
Candidates == {PathOf(e) : e \in {x \in root : Scanned(x)}}

\* q is the signed variant of p: the same name without "-unsigned".
SignedVariant(q, p) ==
  /\ ~HasUnsigned(q) /\ q.suf = p.suf
  /\ q.stem = SelectSeq(p.stem, LAMBDA t : t # "-unsigned")

\* C16: for every set of candidate files, the selection returned consists of
\* candidates only; a candidate whose name contains "-unsigned" is dropped
\* exactly when a candidate with the same name without "-unsigned" (its signed
\* variant, matched by file name) is present; every other candidate, so every
\* signed file and every unsigned file without a signed variant, is selected.
C16_SignedPreferred ==
  cf_pc = "done" =>
    /\ SeqRange(filtered) \subseteq Candidates
    /\ \A p \in Candidates :
         p \notin SeqRange(filtered)
           <=> (HasUnsigned(p) /\ \E q \in Candidates : SignedVariant(q, p))

\* A selection from a signed/unsigned pair plus an unsigned file without a
\* signed variant: the pair's unsigned file is dropped, the other two kept.
C16_Witness ==
  /\ cf_pc = "done" /\ Len(cf_files) = 3 /\ Len(filtered) = 2
  /\ \E p, q, u \in Candidates :
       /\ HasUnsigned(p) /\ SignedVariant(q, p) /\ p.dir = q.dir
       /\ HasUnsigned(u) /\ ~\E v \in Candidates : SignedVariant(v, u)
       /\ SeqRange(filtered) = {q, u}

\* What holds of a poll cycle whatever the rule for the next pending set is:
\* pending lists submissions in discovery order; the submissions polled so far
\* in the cycle are the prefix of pending, each once; and while the cycle has
\* submissions left the next step polls the next one, deadline passed or not.
CycleRunsToEnd ==
  /\ [](\A k \in 1 .. Len(pending) - 1 : pending[k] < pending[k + 1])
  /\ [](pc = "poll" => /\ polled = SubSeq(pending, 1, pi - 1)
                       /\ pi <= Len(pending) + 1)
  /\ [][(pc = "poll" /\ pi <= Len(pending))
          => pc' = "poll" /\ PolledNow(pending[pi]) /\ pending' = pending]_vars

\* C17 as claimed: the deadline is examined only between cycles (a started
\* cycle polls every submission pending at its start exactly once, in
\* discovery order), and the pending set of the next cycle is the
\* order-preserving subsequence of the submissions whose analysis_status is
\* neither completed nor poll_failed.
C17_NextPendingByStatus ==
  /\ CycleRunsToEnd
  /\ [][(pc = "poll" /\ pc' = "while")
          => pending' = SelectSeq(pending, LAMBDA i :
                          records[i].analysis_status \notin {"completed", "poll_failed"})]_vars

\* C17 as amended: the deadline is examined only between cycles (a started
\* cycle polls every submission pending at its start exactly once, in
\* discovery order), and the pending set of the next cycle is the
\* order-preserving subsequence of the submissions whose poll neither was
\* answered completed nor failed with an error; a submission whose poll was
\* answered with the status string poll_failed stays pending.
C17_NextPendingByOutcome ==
  /\ CycleRunsToEnd
  /\ [][(pc = "poll" /\ pc' = "while")
          => pending' = SelectSeq(pending, LAMBDA i :
                          /\ records[i].analysis_status # "completed"
                          /\ records[i].error = <<>>)]_vars

\* The second cycle, over the one submission of two that is left pending, has
\* polled it although the clock had passed the deadline before the request.
C17_Witness ==
  /\ pc = "poll" /\ pending = <<2>> /\ polled = <<2>>
  /\ records[1].analysis_status \in {"completed", "poll_failed"}
  /\ records[2].analysis_status = "in-progress"
  /\ still_pending = <<2>>
  /\ last_req >= deadline

\* How many requests of the given kind the upload loop has made for file i.
CountReqs(i, kind) == Len(SelectSeq(reqs, LAMBDA q : q.file = i /\ q.kind = kind))

\* C18: each artifact is the subject of at most one upload POST and at most
\* one upload-url fetch; once its upload attempt has ended, in success or in
\* failure, no further upload request is made for it; and the transport
\* function issues one request per call: a failed request is followed by no
\* other request for the same artifact, and no step issues two requests.
C18_UploadedAtMostOnce ==
  /\ [](\A i \in 1 .. Len(files) :
          CountReqs(i, "upload") <= 1 /\ CountReqs(i, "upload_url") <= 1)
  /\ [](\A k \in 1 .. Len(reqs) :
          reqs[k].resp = Absent => \A m \in k + 1 .. Len(reqs) : reqs[m].file # reqs[k].file)
  /\ [][/\ \A i \in 1 .. Len(records) : ReqsOf(i)' = ReqsOf(i)
        /\ nreqs' - nreqs \in {0, 1}
        /\ Len(reqs') - Len(reqs) \in {0, 1}]_vars

\* A finished run: the POST of the first file failed and was not repeated, the
\* second file went through fetch and POST once each, and polls followed.
C18_Witness ==
  /\ pc = "done" /\ Len(records) = 2 /\ Len(reqs) = 3
  /\ reqs[1].file = 1 /\ reqs[1].kind = "upload" /\ reqs[1].resp = Absent
  /\ records[1].upload_status = "upload_failed"
  /\ reqs[2].kind = "upload_url" /\ reqs[3].kind = "upload"
  /\ records[2].upload_status = "uploaded"
  /\ nreqs > 3

\* C19: in every reachable state a record that carries analysis_stats has
\* analysis_status completed (so queued, in-progress, poll_failed, timeout,
\* upload_failed and hash_failed records carry none), and stats once stored
\* are never modified or removed.
C19_StatsOnlyWhenCompleted ==
  /\ [](\A i \in 1 .. Len(records) :
          records[i].analysis_stats # <<>> => records[i].analysis_status = "completed")
  /\ [][\A i \in 1 .. Len(records) :
          records[i].analysis_stats # <<>>
            => records'[i].analysis_stats = records[i].analysis_stats]_vars

\* A cycle in which the first submission completed with stats and the second
\* was answered in-progress together with a stats mapping, which is not stored.
C19_Witness ==
  /\ pc = "poll" /\ polled = <<1, 2>>
  /\ records[1].analysis_status = "completed" /\ records[1].analysis_stats # <<>>
  /\ answer.status = "in-progress" /\ answer.stats # <<>>
  /\ records[2].analysis_status = "in-progress" /\ records[2].analysis_stats = <<>>

\* C20: at the end of a run a record carries an error message if and only if
\* it ended in a failure state (upload_status hash_failed or upload_failed, or
\* analysis_status poll_failed), whatever status strings the remote service
\* returned; completed and timeout records carry none.
C20_ErrorIffFailed ==
  pc = "done" =>
    \A i \in 1 .. Len(records) :
      records[i].error # <<>>
        <=> \/ records[i].upload_status \in UploadTerminal
            \/ records[i].analysis_status = "poll_failed"

====
